---------------------------- MODULE Spec2Model ----------------------------
(***************************************************************************)
(* A model of the bimap repository: the intrusive binary search tree       *)
(* (src/intrusive_tree.h, src/unnamed/part_000) and the bimap built on two *)
(* such trees over one allocation per pair (src/unnamed/part_001).         *)
(*                                                                         *)
(* The C++ heap is modelled by pointer-valued fields indexed by address.   *)
(* Left = Right = int with the default comparators std::less<int>, so the  *)
(* default-constructed key of either side is 0.                            *)
(***************************************************************************)
EXTENDS Integers, FiniteSets, Sequences, TLC

\* Largest key used on either side: keys are 0..MaxKey.
MaxKey == 3
Keys == 0..MaxKey
\* Largest key of the programs that pair keys freely.
MaxFewKey == 2
FewKeys == 0..MaxFewKey
\* Largest key of the program that grows trees of five nodes.
MaxTallKey == 4
TallKeys == 0..MaxTallKey
\* The two bimap objects of the program.
Stores == {1, 2}
\* The local object tmp of operator=(bimap const&), and all bimap objects.
Tmp == 3
Objects == Stores \cup {Tmp}
\* The addresses operator new can return: one per object and left key.
Records == 1..(3 * (MaxKey + 1))

\* left_t() and right_t() for int.
DefaultLeft == 0
DefaultRight == 0

(***************************************************************************)
(* Addresses.  A pair record r (bimap::node) has two node_base subobjects  *)
(* at a fixed offset from one another: its node<Left,left_tag> and its     *)
(* node<Right,right_tag>.  A store s has one sentinel node_base in each of *)
(* its two trees.                                                          *)
(***************************************************************************)
NULL == <<"null", 0>>
\* The value of a pointer read through an invalid pointer.
POISON == <<"poison", 0>>
LeftNode(r) == <<"left", r>>
RightNode(r) == <<"right", r>>
LeftSentinel(s) == <<"lsent", s>>
RightSentinel(s) == <<"rsent", s>>

NodeAddr == {LeftNode(r) : r \in Records} \cup {RightNode(r) : r \in Records}
SentinelAddr == {LeftSentinel(s) : s \in Objects} \cup {RightSentinel(s) : s \in Objects}
Addr == NodeAddr \cup SentinelAddr

IsNode(p) == p[1] \in {"left", "right"}
IsSentinel(p) == p[1] \in {"lsent", "rsent"}
\* The Tag of the tree whose sentinel is t.
TagOf(t) == IF t[1] = "lsent" THEN "left" ELSE "right"

VARIABLES
  parent,     \* node_base::parent of every address
  left,       \* node_base::left
  right,      \* node_base::right
  value,      \* node<T,Tag>::value of every record node
  m_size,     \* bimap::m_size of every store (size_t, read modulo 2^64)
  allocated,  \* the records obtained by new and not yet deleted
  constructed,\* the stores whose lifetime has begun and not ended
  call,       \* the last call: operation, store, returned value
  ub          \* whether the last call had undefined behaviour

vars == <<parent, left, right, value, m_size, allocated, constructed, call, ub>>

(***************************************************************************)
(* The program's memory as one value, handed through the operations.       *)
(***************************************************************************)
Mem == [parent |-> parent, left |-> left, right |-> right, value |-> value,
        m_size |-> m_size, allocated |-> allocated, constructed |-> constructed,
        fault |-> FALSE, bad_alloc |-> FALSE]

\* A pointer that may be dereferenced: a subobject of a record that is
\* allocated, or a sentinel of a store that is constructed.
Valid(h, p) ==
  \/ IsNode(p) /\ p[2] \in h.allocated
  \/ IsSentinel(p) /\ p[2] \in h.constructed

Parent(h, p) == IF Valid(h, p) THEN h.parent[p] ELSE POISON
Left(h, p) == IF Valid(h, p) THEN h.left[p] ELSE POISON
Right(h, p) == IF Valid(h, p) THEN h.right[p] ELSE POISON

SetParent(h, p, v) ==
  IF Valid(h, p) THEN [h EXCEPT !.parent[p] = v] ELSE [h EXCEPT !.fault = TRUE]
SetLeft(h, p, v) ==
  IF Valid(h, p) THEN [h EXCEPT !.left[p] = v] ELSE [h EXCEPT !.fault = TRUE]
SetRight(h, p, v) ==
  IF Valid(h, p) THEN [h EXCEPT !.right[p] = v] ELSE [h EXCEPT !.fault = TRUE]

(***************************************************************************)
(* src/unnamed/part_000: node_base and the free functions next and prev.   *)
(***************************************************************************)
is_left(h, node) ==
  LET p == Parent(h, node) IN
  IF p = NULL THEN FALSE ELSE Left(h, p) = node

is_right(h, node) ==
  LET p == Parent(h, node) IN
  IF p = NULL THEN FALSE ELSE Right(h, p) = node

RECURSIVE Leftmost(_, _)
Leftmost(h, node) ==
  IF ~Valid(h, node) THEN POISON
  ELSE IF h.left[node] = NULL THEN node
  ELSE Leftmost(h, h.left[node])

RECURSIVE Rightmost(_, _)
Rightmost(h, node) ==
  IF ~Valid(h, node) THEN POISON
  ELSE IF h.right[node] = NULL THEN node
  ELSE Rightmost(h, h.right[node])

RECURSIVE ClimbWhileRight(_, _)
ClimbWhileRight(h, node) ==
  IF ~Valid(h, node) THEN POISON
  ELSE IF is_right(h, node) THEN ClimbWhileRight(h, h.parent[node])
  ELSE node

RECURSIVE ClimbWhileLeft(_, _)
ClimbWhileLeft(h, node) ==
  IF ~Valid(h, node) THEN POISON
  ELSE IF is_left(h, node) THEN ClimbWhileLeft(h, h.parent[node])
  ELSE node

\* (A variant of next without the loop of lines 13-15 returns the parent of
\* a right child, which lies before it: C21.)
next_unclimbed(h, node) ==
  IF ~Valid(h, node) THEN POISON
  ELSE IF h.right[node] # NULL THEN Leftmost(h, h.right[node])
  ELSE Parent(h, node)

next(h, node) ==
  IF ~Valid(h, node) THEN POISON
  ELSE IF h.right[node] # NULL THEN Leftmost(h, h.right[node])
  ELSE Parent(h, ClimbWhileRight(h, node))

prev(h, node) ==
  IF ~Valid(h, node) THEN POISON
  ELSE IF h.left[node] # NULL THEN Rightmost(h, h.left[node])
  ELSE Parent(h, ClimbWhileLeft(h, node))

\* set_new_child_for_parent, lines 46-50: the parent's child slot.
set_child_slot(h, node, new_child) ==
  IF is_left(h, node) THEN SetLeft(h, Parent(h, node), new_child)
  ELSE SetRight(h, Parent(h, node), new_child)

\* (A variant without lines 51-53 leaves the child pointing at the erased
\* node: C20.)
set_child_parent_skipped(h, node, new_child) == h

\* set_new_child_for_parent, lines 51-53: the child's parent link.
set_child_parent(h, node, new_child) ==
  IF new_child # NULL THEN SetParent(h, new_child, Parent(h, node)) ELSE h

set_new_child_for_parent(h, node, new_child) ==
  set_child_parent(set_child_slot(h, node, new_child), node, new_child)

(***************************************************************************)
(* src/intrusive_tree.h: intrusive_tree<T, Comparator, Tag>.  A tree is    *)
(* named by the address t of its m_sentinel.                               *)
(***************************************************************************)
less(a, b) == a < b
greater(a, b) == less(b, a)
less_or_equal(a, b) == ~greater(a, b)
greater_or_equal(a, b) == ~less(a, b)
equal(a, b) == less_or_equal(a, b) /\ greater_or_equal(a, b)

empty(h, t) == Left(h, t) = NULL
begin(h, t) == Leftmost(h, t)
end(t) == t

\* to_tree_node(p)->value is defined for a live node of the tree's own tag.
IsTreeNode(h, t, p) == Valid(h, p) /\ IsNode(p) /\ p[1] = TagOf(t)

RECURSIVE Descend(_, _, _, _)
Descend(h, t, root, v) ==
  IF ~IsTreeNode(h, t, root) THEN POISON
  ELSE IF greater(v, h.value[root]) THEN
         IF h.right[root] = NULL THEN root ELSE Descend(h, t, h.right[root], v)
  ELSE IF less(v, h.value[root]) THEN
         IF h.left[root] = NULL THEN root ELSE Descend(h, t, h.left[root], v)
  ELSE root

find_nearest(h, t, v) ==
  IF empty(h, t) THEN end(t) ELSE Descend(h, t, Left(h, t), v)

\* find, lines 139-142, on the result of find_nearest.
find_check(h, t, v, result) ==
  IF result = end(t) THEN end(t)
  ELSE IF ~IsTreeNode(h, t, result) THEN POISON
  ELSE IF ~equal(h.value[result], v) THEN end(t)
  ELSE result

find(h, t, v) == find_check(h, t, v, find_nearest(h, t, v))

\* insert returns the new memory and the returned position.
\* insert, lines 147-157, on the result par of find_nearest.
\* (A variant that hangs every new node to the left of its parent breaks
\* the order: C3.)
tree_attach_left(h, t, node, par) ==
  [h |-> SetParent(SetLeft(h, par, node), node, par), ret |-> node]

tree_attach(h, t, node, par) ==
  IF par = end(t) THEN
    [h |-> SetParent(SetLeft(h, t, node), node, par), ret |-> node]
  ELSE IF ~IsTreeNode(h, t, par) THEN
    [h |-> [h EXCEPT !.fault = TRUE], ret |-> POISON]
  ELSE IF greater(h.value[node], h.value[par]) THEN
    [h |-> SetParent(SetRight(h, par, node), node, par), ret |-> node]
  ELSE IF less(h.value[node], h.value[par]) THEN
    [h |-> SetParent(SetLeft(h, par, node), node, par), ret |-> node]
  ELSE [h |-> h, ret |-> end(t)]

tree_insert(h, t, node) ==
  tree_attach(h, t, node, find_nearest(h, t, h.value[node]))

\* The statements of erase's branch for a node with two children, in order.
unlink_new_root(h, node, new_root) ==
  set_new_child_for_parent(h, new_root, Left(h, new_root))

take_children(h, node, new_root) ==
  SetRight(SetLeft(h, new_root, Left(h, node)), new_root, Right(h, node))

adopt_left(h, node, new_root) ==
  IF Left(h, node) # NULL THEN SetParent(h, Left(h, node), new_root) ELSE h

\* (A variant without line 179 leaves the right child naming the erased
\* node as its parent: C22.)
adopt_right_skipped(h, node, new_root) == h

adopt_right(h, node, new_root) == SetParent(h, Right(h, node), new_root)

\* (A variant that erases by copying the predecessor's value into the node
\* and unlinking the predecessor moves a key to another record: C7.)
erase_two_children_by_value(h, node, new_root) ==
  IF ~(Valid(h, node) /\ IsNode(node) /\ Valid(h, new_root) /\ IsNode(new_root))
  THEN [h EXCEPT !.fault = TRUE]
  ELSE set_new_child_for_parent([h EXCEPT !.value[node] = h.value[new_root]],
                                new_root, Left(h, new_root))

erase_two_children(h, node, new_root) ==
  set_new_child_for_parent(
    adopt_right(adopt_left(take_children(unlink_new_root(h, node, new_root),
                                         node, new_root),
                           node, new_root),
                node, new_root),
    node, new_root)

tree_erase(h, node) ==
  IF node = NULL THEN h
  ELSE IF Left(h, node) = NULL /\ Right(h, node) = NULL THEN
    set_new_child_for_parent(h, node, NULL)
  ELSE IF Left(h, node) = NULL THEN
    set_new_child_for_parent(h, node, Right(h, node))
  ELSE IF Right(h, node) = NULL THEN
    set_new_child_for_parent(h, node, Left(h, node))
  ELSE erase_two_children(h, node, prev(h, node))

\* upper_bound, lines 196-199, on the result of find_nearest.
upper_bound_from(h, t, v, result) ==
  IF result = end(t) THEN result
  ELSE IF ~IsTreeNode(h, t, result) THEN POISON
  ELSE IF greater(h.value[result], v) THEN result
  ELSE next(h, result)

upper_bound(h, t, v) == upper_bound_from(h, t, v, find_nearest(h, t, v))

\* (A variant of lower_bound that steps over an equal key is upper_bound: C18.)
lower_bound_from_strict(h, t, v, result) ==
  IF result = end(t) THEN result
  ELSE IF ~IsTreeNode(h, t, result) THEN POISON
  ELSE IF greater(h.value[result], v) THEN result
  ELSE next(h, result)

\* lower_bound, lines 203-207, on the result of find_nearest.
lower_bound_from(h, t, v, result) ==
  IF result = end(t) THEN result
  ELSE IF ~IsTreeNode(h, t, result) THEN POISON
  ELSE IF greater_or_equal(h.value[result], v) THEN result
  ELSE next(h, result)

lower_bound(h, t, v) == lower_bound_from(h, t, v, find_nearest(h, t, v))

(***************************************************************************)
(* src/unnamed/part_001: bimap<int, int>.                                  *)
(***************************************************************************)
\* base_iterator::flip on the node pointer p of an iterator.
flip(h, p) ==
  IF p = NULL THEN NULL
  ELSE IF Parent(h, p) = NULL THEN Right(h, p)
  ELSE IF ~Valid(h, p) \/ ~IsNode(p) THEN POISON
  ELSE IF p[1] = "left" THEN RightNode(p[2]) ELSE LeftNode(p[2])

\* operator* of an iterator of the given tag on node pointer p; -1 marks a
\* read that is not defined.
deref(h, tag, p) ==
  IF Valid(h, p) /\ IsNode(p) /\ p[1] = tag THEN h.value[p] ELSE -1

begin_left(h, s) == begin(h, LeftSentinel(s))
end_left(s) == end(LeftSentinel(s))
begin_right(h, s) == begin(h, RightSentinel(s))
end_right(s) == end(RightSentinel(s))

find_left(h, s, l) == find(h, LeftSentinel(s), l)
find_right(h, s, r) == find(h, RightSentinel(s), r)

lower_bound_left(h, s, l) == lower_bound(h, LeftSentinel(s), l)
upper_bound_left(h, s, l) == upper_bound(h, LeftSentinel(s), l)
lower_bound_right(h, s, r) == lower_bound(h, RightSentinel(s), r)
upper_bound_right(h, s, r) == upper_bound(h, RightSentinel(s), r)

size(h, s) == h.m_size[s]
bimap_empty(h, s) == h.m_size[s] = 0

link_trees(h, s) ==
  SetRight(SetRight(h, LeftSentinel(s), RightSentinel(s)),
           RightSentinel(s), LeftSentinel(s))

\* The address operator new returns.  The program compares addresses only
\* for equality, so which free address is returned does not matter to it:
\* the allocator here returns the slot numbered by the store and the left
\* key when that slot is free, and the lowest free slot otherwise.
NewRecord(h, s, l) ==
  LET slot == (s - 1) * (MaxKey + 1) + l + 1 IN
  IF slot \notin h.allocated THEN slot
  ELSE CHOOSE r \in Records \ h.allocated :
         \A q \in Records \ h.allocated : r <= q

\* new node_t(l, r): both node_base subobjects start with null links.
new_node(h, rec, l, r) ==
  [h EXCEPT !.allocated = @ \cup {rec},
            !.parent = [@ EXCEPT ![LeftNode(rec)] = NULL, ![RightNode(rec)] = NULL],
            !.left = [@ EXCEPT ![LeftNode(rec)] = NULL, ![RightNode(rec)] = NULL],
            !.right = [@ EXCEPT ![LeftNode(rec)] = NULL, ![RightNode(rec)] = NULL],
            !.value = [@ EXCEPT ![LeftNode(rec)] = l, ![RightNode(rec)] = r]]

\* delete of the record whose subobject of the given tag is at p.  The
\* storage of a deleted record holds nothing the program may read.
\* (A variant that never returns the storage leaves the record allocated: C6.)
delete_node_leaked(h, tag, p) == h

delete_node(h, tag, p) ==
  IF ~(Valid(h, p) /\ IsNode(p) /\ p[1] = tag) THEN [h EXCEPT !.fault = TRUE]
  ELSE LET rec == p[2] IN
    [h EXCEPT !.allocated = @ \ {rec},
              !.parent = [@ EXCEPT ![LeftNode(rec)] = NULL, ![RightNode(rec)] = NULL],
              !.left = [@ EXCEPT ![LeftNode(rec)] = NULL, ![RightNode(rec)] = NULL],
              !.right = [@ EXCEPT ![LeftNode(rec)] = NULL, ![RightNode(rec)] = NULL],
              !.value = [@ EXCEPT ![LeftNode(rec)] = 0, ![RightNode(rec)] = 0]]

\* (A variant of lines 380-382 without ++m_size inserts without counting: C13.)
insert_right_uncounted(i1, s, rec) ==
  [h |-> tree_insert(i1.h, RightSentinel(s), RightNode(rec)).h, ret |-> i1.ret]

\* base_insert, lines 380-382: i1 is the result of the left tree's insert.
insert_right(i1, s, rec) ==
  [h |-> [tree_insert(i1.h, RightSentinel(s), RightNode(rec)).h
            EXCEPT !.m_size[s] = @ + 1],
   ret |-> i1.ret]

\* base_insert, lines 378-382, with the record at address rec.
insert_new(h, s, l, r, rec) ==
  insert_right(tree_insert(new_node(h, rec, l, r), LeftSentinel(s), LeftNode(rec)),
               s, rec)

\* base_insert on the results fl and fr of find_left and find_right.
\* (A variant that looks for the left key only changes the store on a
\* duplicate right value: C4.)
insert_checked_left_only(h, s, l, r, fl, fr) ==
  IF fl # end_left(s) THEN [h |-> h, ret |-> end_left(s)]
  ELSE IF Records \ h.allocated = {}
    THEN [h |-> [h EXCEPT !.bad_alloc = TRUE], ret |-> NULL]
  ELSE insert_new(h, s, l, r, NewRecord(h, s, l))

insert_checked(h, s, l, r, fl, fr) ==
  IF fl = POISON \/ fr = POISON THEN [h |-> [h EXCEPT !.fault = TRUE], ret |-> POISON]
  ELSE IF fl # end_left(s) \/ fr # end_right(s) THEN [h |-> h, ret |-> end_left(s)]
  ELSE IF Records \ h.allocated = {}
    THEN [h |-> [h EXCEPT !.bad_alloc = TRUE], ret |-> NULL]
  ELSE insert_new(h, s, l, r, NewRecord(h, s, l))

base_insert(h, s, l, r) ==
  insert_checked(h, s, l, r, find_left(h, s, l), find_right(h, s, r))

insert(h, s, l, r) == base_insert(h, s, l, r)

\* erase_left(left_iterator): it is the iterator's node pointer.
\* The erase of the other tree, through it.flip(), in the memory h after
\* the erase of it from its own tree.
\* (A variant that leaves the other tree alone breaks the pairing: C1.)
erase_flipped_skipped(h, it) == h

erase_flipped(h, it) == tree_erase(h, flip(h, it))

\* --m_size
\* (A variant that keeps the counter breaks the count: C2.)
decrement_size_kept(h, s) == h

decrement_size(h, s) == [h EXCEPT !.m_size[s] = @ - 1]

erase_left(h, s, it) ==
  IF it = end_left(s) \/ it = NULL THEN [h |-> h, ret |-> NULL]
  ELSE [h |-> decrement_size(
                delete_node(erase_flipped(tree_erase(h, it), it), "left", it), s),
        ret |-> next(h, it)]

erase_right(h, s, it) ==
  IF it = end_right(s) \/ it = NULL THEN [h |-> h, ret |-> NULL]
  ELSE [h |-> decrement_size(
                delete_node(erase_flipped(tree_erase(h, it), it), "right", it), s),
        ret |-> next(h, it)]

\* (A variant that compares the result with end_left() instead of
\* left_iterator() answers false when the largest key was erased: C16.)
erased_not_end(e) == [h |-> e.h, ret |-> e.ret # NULL /\ e.ret[1] \notin {"lsent", "rsent"}]

\* erase_left(...) != left_iterator() on the result e of the erase.
erased(e) == [h |-> e.h, ret |-> e.ret # NULL]

\* erase_left(left_t const&): the memory and whether a pair was erased.
erase_left_key(h, s, l) == erased(erase_left(h, s, find_left(h, s, l)))

erase_right_key(h, s, r) == erased(erase_right(h, s, find_right(h, s, r)))

\* erase_left(first, last): while (first != last) erase_left(first++).
RECURSIVE erase_left_loop(_, _, _, _)
erase_left_loop(h, s, first, last) ==
  IF h.fault \/ first = last THEN h
  ELSE IF ~Valid(h, first) THEN [h EXCEPT !.fault = TRUE]
  ELSE erase_left_loop(erase_left(h, s, first).h, s, next(h, first), last)

RECURSIVE erase_right_loop(_, _, _, _)
erase_right_loop(h, s, first, last) ==
  IF h.fault \/ first = last THEN h
  ELSE IF ~Valid(h, first) THEN [h EXCEPT !.fault = TRUE]
  ELSE erase_right_loop(erase_right(h, s, first).h, s, next(h, first), last)

\* (A variant that erases last as well removes one pair too many: C15.)
erase_left_range_closed(h, s, first, last) ==
  [h |-> erase_left(erase_left_loop(h, s, first, last), s, last).h, ret |-> last]

erase_left_range(h, s, first, last) ==
  [h |-> erase_left_loop(h, s, first, last), ret |-> last]

erase_right_range(h, s, first, last) ==
  [h |-> erase_right_loop(h, s, first, last), ret |-> last]

\* (A variant of at_left that dereferences the found position itself, without
\* flip(), returns the key: C14.)
at_left_from_unflipped(h, s, result) ==
  IF result = end_left(s) THEN [h |-> h, val |-> -1, threw |-> TRUE]
  ELSE [h |-> h, val |-> deref(h, "left", result), threw |-> FALSE]

\* at_left / at_right: val is the returned value, threw is std::out_of_range.
\* at_left, lines 269-272, on the result of find_left.
at_left_from(h, s, result) ==
  IF result = end_left(s) THEN [h |-> h, val |-> -1, threw |-> TRUE]
  ELSE [h |-> h, val |-> deref(h, "right", flip(h, result)), threw |-> FALSE]

at_left(h, s, key) == at_left_from(h, s, find_left(h, s, key))

at_right_from(h, s, result) ==
  IF result = end_right(s) THEN [h |-> h, val |-> -1, threw |-> TRUE]
  ELSE [h |-> h, val |-> deref(h, "left", flip(h, result)), threw |-> FALSE]

at_right(h, s, key) == at_right_from(h, s, find_right(h, s, key))

\* *i.flip() for the left iterator i an insert returned.
deref_flipped(i) ==
  [h |-> i.h, val |-> deref(i.h, "right", flip(i.h, i.ret)), threw |-> FALSE]

\* *i for the left iterator i an insert returned.
deref_inserted(i) ==
  [h |-> i.h, val |-> deref(i.h, "left", i.ret), threw |-> FALSE]

\* (A variant without the eviction returns no default when the default is
\* already paired: C5.)
at_left_or_default_kept(h, s, key) ==
  IF find_left(h, s, key) = end_left(s) THEN
    deref_flipped(insert(h, s, key, DefaultRight))
  ELSE at_left(h, s, key)

at_left_or_default(h, s, key) ==
  IF find_left(h, s, key) = end_left(s) THEN
    deref_flipped(insert(erase_right_key(h, s, DefaultRight).h, s, key, DefaultRight))
  ELSE at_left(h, s, key)

at_right_or_default(h, s, key) ==
  IF find_right(h, s, key) = end_right(s) THEN
    deref_inserted(insert(erase_left_key(h, s, DefaultLeft).h, s, DefaultLeft, key))
  ELSE at_right(h, s, key)

\* The members of a bimap under construction: two sentinels with null links
\* and m_size = 0 (the default member initializers).
fresh_store(h, s) ==
  [h EXCEPT !.constructed = @ \cup {s},
            !.parent = [@ EXCEPT ![LeftSentinel(s)] = NULL, ![RightSentinel(s)] = NULL],
            !.left = [@ EXCEPT ![LeftSentinel(s)] = NULL, ![RightSentinel(s)] = NULL],
            !.right = [@ EXCEPT ![LeftSentinel(s)] = NULL, ![RightSentinel(s)] = NULL],
            !.m_size = [@ EXCEPT ![s] = 0]]

\* bimap(CompareLeft, CompareRight)
bimap_default(h, s) == link_trees(fresh_store(h, s), s)

\* The loop of bimap(bimap const& other), from iterator it on.
RECURSIVE copy_loop(_, _, _, _)
\* The loop after one insert left memory h: ++it, and on.
copy_step(h, s, other, it) == copy_loop(h, s, other, next(h, it))

copy_loop(h, s, other, it) ==
  IF h.fault \/ h.bad_alloc \/ it = end_left(other) THEN h
  ELSE IF deref(h, "left", it) = -1 \/ deref(h, "right", flip(h, it)) = -1
    THEN [h EXCEPT !.fault = TRUE]
  ELSE copy_step(insert(h, s, deref(h, "left", it), deref(h, "right", flip(h, it))).h,
                 s, other, it)

\* The loop of the copy constructor, from other.begin_left().
copy_all(h, s, other) == copy_loop(h, s, other, begin_left(h, other))

\* (A variant that copies the root pointers and the size, sharing the
\* records, is neither equal to nor independent of its source: C12.)
bimap_copy_shallow(h, s, other) ==
  link_trees([fresh_store(h, s) EXCEPT
                !.left = [@ EXCEPT ![LeftSentinel(s)] = h.left[LeftSentinel(other)],
                                   ![RightSentinel(s)] = h.left[RightSentinel(other)]],
                !.m_size = [@ EXCEPT ![s] = h.m_size[other]]],
             s)

\* bimap(bimap const& other)
bimap_copy(h, s, other) == copy_all(link_trees(fresh_store(h, s), s), s, other)

\* intrusive_tree(intrusive_tree&& other): the sentinel is copied member by
\* member (node_base has the implicit move constructor), other keeps its own.
move_sentinel(h, t, other) ==
  [h EXCEPT !.parent[t] = h.parent[other],
            !.left[t] = h.left[other],
            !.right[t] = h.right[other]]

\* Lines 78-80: the root's parent becomes the new sentinel.
adopt_root(h, t) ==
  IF h.left[t] # NULL THEN SetParent(h, h.left[t], t) ELSE h

tree_move(h, t, other) == adopt_root(move_sentinel(h, t, other), t)

\* bimap(bimap&& other): m_size is not named by the constructor, so it takes
\* its default member initializer.
bimap_move(h, s, other) ==
  link_trees(
    tree_move(tree_move(fresh_store(h, s), LeftSentinel(s), LeftSentinel(other)),
              RightSentinel(s), RightSentinel(other)),
    s)

\* intrusive_tree::swap
\* std::swap of the parent fields of the objects at a and b.
swap_parent(h, a, b) ==
  IF ~Valid(h, a) \/ ~Valid(h, b) THEN [h EXCEPT !.fault = TRUE]
  ELSE [h EXCEPT !.parent = [@ EXCEPT ![a] = h.parent[b], ![b] = h.parent[a]]]

swap_left(h, a, b) ==
  IF ~Valid(h, a) \/ ~Valid(h, b) THEN [h EXCEPT !.fault = TRUE]
  ELSE [h EXCEPT !.left = [@ EXCEPT ![a] = h.left[b], ![b] = h.left[a]]]

swap_right(h, a, b) ==
  IF ~Valid(h, a) \/ ~Valid(h, b) THEN [h EXCEPT !.fault = TRUE]
  ELSE [h EXCEPT !.right = [@ EXCEPT ![a] = h.right[b], ![b] = h.right[a]]]

\* intrusive_tree::swap, lines 241-243: the sentinels' own fields.
swap_sentinels(h, t, other) ==
  swap_right(swap_left(swap_parent(h, t, other), t, other), t, other)

\* intrusive_tree::swap.  Line 240 dereferences m_sentinel.left of both trees.
tree_swap(h, t, other) ==
  IF h.fault THEN h
  ELSE swap_sentinels(swap_parent(h, Left(h, t), Left(h, other)), t, other)

swap_size(h, s, other) ==
  [h EXCEPT !.m_size = [@ EXCEPT ![s] = h.m_size[other], ![other] = h.m_size[s]]]

\* bimap::swap, lines 153-154.
\* (A variant of swap that does not link the trees again leaves each end
\* position flipping into the other store: C11.)
link_both_skipped(h, s, other) == h

link_both(h, s, other) ==
  IF h.fault THEN h ELSE link_trees(link_trees(h, s), other)

\* bimap::swap
bimap_swap(h, s, other) ==
  link_both(
    tree_swap(tree_swap(swap_size(h, s, other), LeftSentinel(s), LeftSentinel(other)),
              RightSentinel(s), RightSentinel(other)),
    s, other)

\* operator==(a, b): ret is the result, fault whether an iterator was
\* dereferenced or incremented that must not be.
\* The loop of operator==, lines 354-360, from the iterators it_a and it_b.
RECURSIVE equal_loop(_, _, _, _, _)
equal_loop(h, a, b, it_a, it_b) ==
  IF it_a = end_left(a) THEN [ret |-> TRUE, fault |-> FALSE]
  ELSE IF \/ deref(h, "left", it_a) = -1
          \/ deref(h, "left", it_b) = -1
          \/ deref(h, "right", flip(h, it_a)) = -1
          \/ deref(h, "right", flip(h, it_b)) = -1
    THEN [ret |-> FALSE, fault |-> TRUE]
  ELSE IF \/ ~equal(deref(h, "left", it_a), deref(h, "left", it_b))
          \/ ~equal(deref(h, "right", flip(h, it_a)), deref(h, "right", flip(h, it_b)))
    THEN [ret |-> FALSE, fault |-> FALSE]
  ELSE equal_loop(h, a, b, next(h, it_a), next(h, it_b))

bimap_equal(h, a, b) ==
  IF size(h, a) # size(h, b) THEN [ret |-> FALSE, fault |-> FALSE]
  ELSE equal_loop(h, a, b, begin_left(h, a), begin_left(h, b))

\* The number of times the body of the destructor's loop runs from it.
RECURSIVE destroy_steps(_, _, _)
destroy_steps(h, s, it) ==
  IF h.fault \/ it = end_left(s) \/ ~Valid(h, it) THEN 0
  ELSE 1 + destroy_steps(erase_left(h, s, it).h, s, next(h, it))

\* (A variant with an empty destructor body frees nothing: C17.)
bimap_destroy_trivial(h, s) ==
  [h EXCEPT !.constructed = @ \ {s},
            !.parent = [@ EXCEPT ![LeftSentinel(s)] = NULL, ![RightSentinel(s)] = NULL],
            !.left = [@ EXCEPT ![LeftSentinel(s)] = NULL, ![RightSentinel(s)] = NULL],
            !.right = [@ EXCEPT ![LeftSentinel(s)] = NULL, ![RightSentinel(s)] = NULL],
            !.m_size = [@ EXCEPT ![s] = 0]]

\* ~bimap(): the erase loop, then the members' lifetime ends.
bimap_destroy(h, s) ==
  LET h1 == erase_left_loop(h, s, begin_left(h, s), end_left(s))
  IN [h1 EXCEPT !.constructed = @ \ {s},
                !.parent = [@ EXCEPT ![LeftSentinel(s)] = NULL, ![RightSentinel(s)] = NULL],
                !.left = [@ EXCEPT ![LeftSentinel(s)] = NULL, ![RightSentinel(s)] = NULL],
                !.right = [@ EXCEPT ![LeftSentinel(s)] = NULL, ![RightSentinel(s)] = NULL],
                !.m_size = [@ EXCEPT ![s] = 0]]

\* operator=(bimap const& other): auto tmp = other; swap(tmp); and tmp's
\* destructor at the end of the block.
assign_swap(h, s) == bimap_swap(h, s, Tmp)

bimap_assign(h, s, other) ==
  IF s = other THEN h
  ELSE bimap_destroy(assign_swap(bimap_copy(h, Tmp, other), s), Tmp)

(***************************************************************************)
(* The state machine: one action per public operation of bimap, applied to *)
(* the object at store address s.                                          *)
(***************************************************************************)
\* The record of a call: the operation, the store it was called on, and
\* what it returned (ret: an iterator; val: a value; flag: a bool).  Unused
\* fields hold 0, -1, NULL or FALSE.
NoCall == [op |-> "none", s |-> 0, ret |-> NULL, val |-> -1, flag |-> FALSE]

Init ==
  /\ parent = [a \in Addr |-> NULL]
  /\ left = [a \in Addr |-> NULL]
  /\ right = [a \in Addr |-> NULL]
  /\ value = [a \in NodeAddr |-> 0]
  /\ m_size = [s \in Objects |-> 0]
  /\ allocated = {}
  /\ constructed = {}
  /\ call = NoCall
  /\ ub = FALSE

\* The state after a call that leaves memory h.  A call that dereferenced an
\* invalid pointer has undefined behaviour: the model records it in ub and
\* follows the program no further.  operator new never fails, and m_size
\* stays within the number of keys of zero.
Commit(h, c, poisoned) ==
  /\ ~ub
  /\ ~h.bad_alloc
  /\ \A s \in Objects : h.m_size[s] \in (0 - MaxKey - 1)..(MaxTallKey + 1)
  /\ IF h.fault \/ poisoned
     THEN /\ ub' = TRUE
          /\ call' = [c EXCEPT !.ret = NULL, !.val = -1, !.flag = FALSE]
          /\ UNCHANGED <<parent, left, right, value, m_size, allocated, constructed>>
     ELSE /\ ub' = FALSE
          /\ call' = c
          /\ parent' = h.parent
          /\ left' = h.left
          /\ right' = h.right
          /\ value' = h.value
          /\ m_size' = h.m_size
          /\ allocated' = h.allocated
          /\ constructed' = h.constructed

\* The iterators a caller can hold on store s: what find returns for a key.
LeftPositions(h, s) == {find_left(h, s, k) : k \in Keys} \ {end_left(s)}
RightPositions(h, s) == {find_right(h, s, k) : k \in Keys} \ {end_right(s)}

\* The state after a call op on store s that returned nothing.
Done(op, s, h) == Commit(h, [NoCall EXCEPT !.op = op, !.s = s], FALSE)

\* The state after a call that returned an iterator: e is [h, ret].
Returned(op, s, e) ==
  Commit(e.h, [NoCall EXCEPT !.op = op, !.s = s, !.ret = e.ret], e.ret = POISON)

\* The state after a call that returned a bool: e is [h, ret].
ReturnedBool(op, s, e) ==
  Commit(e.h, [NoCall EXCEPT !.op = op, !.s = s, !.flag = e.ret], FALSE)

\* The state after a call that returned a value: a is [h, val, threw].
ReturnedValue(op, s, a) ==
  Commit(a.h, [NoCall EXCEPT !.op = op, !.s = s, !.val = a.val], a.val = -1)

\* Store s has not been moved from: the root of each of its trees, if any,
\* is a live node whose parent is the tree's own sentinel.  A program uses a
\* moved-from bimap no further, except that its destructor runs.
OwnsRoot(h, t) ==
  h.left[t] = NULL \/ (Valid(h, h.left[t]) /\ h.parent[h.left[t]] = t)

Usable(h, s) == OwnsRoot(h, LeftSentinel(s)) /\ OwnsRoot(h, RightSentinel(s))

\* The records operator new hands to store s before it falls back on any
\* free record (see NewRecord).
Home(s) == ((s - 1) * (MaxKey + 1) + 1)..(s * (MaxKey + 1))

\* To keep the state space small, a program copies, moves and swaps a bimap
\* only while the records at its root nodes lie in its Home: a bimap that
\* took another's records in a swap is used no further.
AtHome(h, s) ==
  /\ Usable(h, s)
  /\ \A t \in {LeftSentinel(s), RightSentinel(s)} :
       h.left[t] # NULL => h.left[t][2] \in Home(s)

Construct(s) ==
  /\ s \notin constructed
  /\ Done("bimap", s, bimap_default(Mem, s))

CopyConstruct(s, o) ==
  /\ s \notin constructed
  /\ o \in constructed
  /\ AtHome(Mem, o)
  /\ Done("copy", s, bimap_copy(Mem, s, o))

Destroy(s) ==
  /\ s \in constructed
  /\ Done("destroy", s, bimap_destroy(Mem, s))

Insert(s, l, r) ==
  /\ s \in constructed
  /\ Returned("insert", s, insert(Mem, s, l, r))

EraseLeft(s, it) ==
  /\ s \in constructed
  /\ it \in LeftPositions(Mem, s)
  /\ Returned("erase_left", s, erase_left(Mem, s, it))

EraseRight(s, it) ==
  /\ s \in constructed
  /\ it \in RightPositions(Mem, s)
  /\ Returned("erase_right", s, erase_right(Mem, s, it))

EraseLeftKey(s, l) ==
  /\ s \in constructed
  /\ ReturnedBool("erase_left_key", s, erase_left_key(Mem, s, l))

EraseRightKey(s, r) ==
  /\ s \in constructed
  /\ ReturnedBool("erase_right_key", s, erase_right_key(Mem, s, r))

\* erase_left(first, last) for a non-empty range [first, last).
EraseLeftFromTo(s, first, lst) ==
  /\ first # lst
  /\ first # POISON
  /\ lst # POISON
  /\ Returned("erase_left_range", s, erase_left_range(Mem, s, first, lst))

EraseRightFromTo(s, first, lst) ==
  /\ first # lst
  /\ first # POISON
  /\ lst # POISON
  /\ Returned("erase_right_range", s, erase_right_range(Mem, s, first, lst))

\* The caller gets the range from two keys k1 <= k2 through lower_bound.
EraseLeftRange(s, k1, k2) ==
  /\ s \in constructed
  /\ k1 <= k2
  /\ EraseLeftFromTo(s, lower_bound(Mem, LeftSentinel(s), k1),
                        lower_bound(Mem, LeftSentinel(s), k2))

EraseRightRange(s, k1, k2) ==
  /\ s \in constructed
  /\ k1 <= k2
  /\ EraseRightFromTo(s, lower_bound(Mem, RightSentinel(s), k1),
                         lower_bound(Mem, RightSentinel(s), k2))

AtLeftOrDefault(s, key) ==
  /\ s \in constructed
  /\ ReturnedValue("at_left_or_default", s, at_left_or_default(Mem, s, key))

AtRightOrDefault(s, key) ==
  /\ s \in constructed
  /\ ReturnedValue("at_right_or_default", s, at_right_or_default(Mem, s, key))

MoveConstruct(s, o) ==
  /\ s \notin constructed
  /\ o \in constructed
  /\ AtHome(Mem, o)
  /\ Done("move", s, bimap_move(Mem, s, o))

Swap(s, o) ==
  /\ s \in constructed
  /\ o \in constructed
  /\ AtHome(Mem, s)
  /\ AtHome(Mem, o)
  /\ Done("swap", s, bimap_swap(Mem, s, o))

CopyAssign(s, o) ==
  /\ s \in constructed
  /\ o \in constructed
  /\ AtHome(Mem, s)
  /\ AtHome(Mem, o)
  /\ Done("assign", s, bimap_assign(Mem, s, o))

\* Construction and destruction of the stores of S.
Lifetime(S) ==
  \/ \E s \in S : Construct(s)
  \/ \E s \in S : Destroy(s)

\* The mutating calls on the stores of S: insert of a pair of P, erase (by
\* position, key and range) and at_*_or_default with keys of K.  A range is
\* given by two keys, of which MaxKey + 1 stands for the end.
Mutations(S, K, P) ==
  \/ \E s \in S, p \in P : Insert(s, p[1], p[2])
  \/ \E s \in S, it \in NodeAddr : EraseLeft(s, it)
  \/ \E s \in S, it \in NodeAddr : EraseRight(s, it)
  \/ \E s \in S, l \in K : EraseLeftKey(s, l)
  \/ \E s \in S, r \in K : EraseRightKey(s, r)
  \/ \E s \in S, k1 \in K \cup {MaxKey + 1}, k2 \in K \cup {MaxKey + 1} :
       EraseLeftRange(s, k1, k2)
  \/ \E s \in S, k1 \in K \cup {MaxKey + 1}, k2 \in K \cup {MaxKey + 1} :
       EraseRightRange(s, k1, k2)
  \/ \E s \in S, key \in K : AtLeftOrDefault(s, key)
  \/ \E s \in S, key \in K : AtRightOrDefault(s, key)

\* A program with one bimap that pairs the keys of FewKeys freely.
Next == Lifetime({1}) \/ Mutations({1}, FewKeys, FewKeys \X FewKeys)

Spec == Init /\ [][Next]_vars

\* A program with one bimap over all of Keys, whose trees grow to MaxKey + 1
\* nodes: it inserts each left key with the right key two places on (and
\* the pairs at_*_or_default make), so the two trees take different shapes.
DeepPairs == {<<l, (l + 2) % (MaxKey + 1)>> : l \in Keys}

NextDeep == Lifetime({1}) \/ Mutations({1}, Keys, DeepPairs)

SpecDeep == Init /\ [][NextDeep]_vars

\* A program with one bimap over TallKeys that only inserts and erases by
\* left position: its trees grow to MaxTallKey + 1 nodes, so that a node
\* with two children can have a predecessor below its left child that has
\* a left child of its own.
TallPairs == {<<l, (l + 2) % (MaxTallKey + 1)>> : l \in TallKeys}

NextTall ==
  \/ Lifetime({1})
  \/ \E p \in TallPairs : Insert(1, p[1], p[2])
  \/ \E it \in NodeAddr : EraseLeft(1, it)

SpecTall == Init /\ [][NextTall]_vars

\* A program with two bimaps, each of which can be made as a copy of the
\* other.  To keep the state space small the program mutates a bimap only
\* while it is the only one constructed, has not been moved from, and no
\* record lies outside Home; the effect of a mutating call made in any other
\* state is examined by applying the operation to Mem.
Alone ==
  {s \in constructed :
     constructed = {s} /\ allocated \subseteq Home(s) /\ Usable(Mem, s)}

NextCopy ==
  \/ Lifetime(Stores)
  \/ Mutations(Alone, FewKeys, FewKeys \X FewKeys)
  \/ \E s \in Stores, o \in Stores : CopyConstruct(s, o)

SpecCopy == Init /\ [][NextCopy]_vars

\* The same with copy assignment.
NextAssign ==
  \/ NextCopy
  \/ \E s \in Stores, o \in Stores : CopyAssign(s, o)

SpecAssign == Init /\ [][NextAssign]_vars

\* The same with move construction and swap.
NextMove ==
  \/ NextCopy
  \/ \E s \in Stores, o \in Stores : MoveConstruct(s, o)
  \/ \E s \in Stores, o \in Stores : Swap(s, o)

SpecMove == Init /\ [][NextMove]_vars

(***************************************************************************)
(* The vocabulary of the properties: what a store holds, read from the     *)
(* links alone.                                                            *)
(***************************************************************************)
\* The addresses reachable from the set S by left and right links.
RECURSIVE Closure(_, _)
Closure(h, S) ==
  IF \A p \in S : h.left[p] \in S \cup {NULL} /\ h.right[p] \in S \cup {NULL} THEN S
  ELSE Closure(h, S \cup (({h.left[p] : p \in S} \cup {h.right[p] : p \in S}) \ {NULL}))

\* The subtree rooted at p.
Subtree(h, p) == IF p = NULL THEN {} ELSE Closure(h, {p})

\* The nodes linked into the tree with sentinel t.
Nodes(h, t) == Subtree(h, h.left[t])

\* The records linked into the left tree of store s.
LeftRecords(h, s) == {r \in Records : LeftNode(r) \in Nodes(h, LeftSentinel(s))}
RightRecords(h, s) == {r \in Records : RightNode(r) \in Nodes(h, RightSentinel(s))}

\* The pair a record holds, and the pairs of store s.
PairOf(h, r) == <<h.value[LeftNode(r)], h.value[RightNode(r)]>>
Pairs(h, s) == {PairOf(h, r) : r \in LeftRecords(h, s)}

(***************************************************************************)
(* C1.  Pairing invariant: in every state reached by insert, erase (by     *)
(* position, key or range) and at_*_or_default, a record is linked into    *)
(* the left tree iff it is linked into the right tree, and for every live  *)
(* pair (L, R) find_left(L).flip() = find_right(R) and                     *)
(* find_right(R).flip() = find_left(L).                                    *)
(***************************************************************************)
Paired(h, s) ==
  /\ LeftRecords(h, s) = RightRecords(h, s)
  /\ \A r \in LeftRecords(h, s) :
       /\ flip(h, find_left(h, s, h.value[LeftNode(r)]))
            = find_right(h, s, h.value[RightNode(r)])
       /\ flip(h, find_right(h, s, h.value[RightNode(r)]))
            = find_left(h, s, h.value[LeftNode(r)])
       /\ find_left(h, s, h.value[LeftNode(r)]) = LeftNode(r)

\* C1: no call is undefined, and in every state every store links each record
\* into both trees or neither, with find and flip agreeing on every live pair.
C1_PairingInvariant == ~ub /\ \A s \in constructed : Paired(Mem, s)

\* An erase by position has just left two pairs in store 1.
C1_Witness ==
  /\ call.op = "erase_right"
  /\ Cardinality(LeftRecords(Mem, 1)) = 2
  /\ Cardinality(RightRecords(Mem, 1)) = 2

(***************************************************************************)
(* C2.  Count invariant: in every state reached by insert, erase (by       *)
(* position, key or range), at_*_or_default and copy construction, size()  *)
(* equals the number of nodes reachable from the left sentinel and from    *)
(* the right sentinel, and empty() is true exactly when both trees are     *)
(* empty.                                                                  *)
(***************************************************************************)
Counted(h, s) ==
  /\ size(h, s) = Cardinality(Nodes(h, LeftSentinel(s)))
  /\ size(h, s) = Cardinality(Nodes(h, RightSentinel(s)))
  /\ bimap_empty(h, s) <=> (empty(h, LeftSentinel(s)) /\ empty(h, RightSentinel(s)))

\* C2: no call is undefined, and in every state size() of every store is the
\* node count of each of its trees, and empty() holds iff both trees are empty.
C2_CountInvariant == ~ub /\ \A s \in constructed : Counted(Mem, s)

\* A copy constructor has just made a store of two pairs beside its source.
C2_Witness ==
  /\ call.op = "copy"
  /\ constructed = Stores
  /\ size(Mem, call.s) = 2
  /\ Cardinality(Nodes(Mem, LeftSentinel(call.s))) = 2
  /\ Cardinality(allocated) = 4

(***************************************************************************)
(* C3.  BST order and uniqueness: after any sequence of insert and erase   *)
(* (with the evictions of at_*_or_default), in each tree every node's left *)
(* subtree holds only keys strictly less than the node's key and its right *)
(* subtree only keys strictly greater; so no two live nodes of one side    *)
(* compare equal.                                                          *)
(***************************************************************************)
Ordered(h, t) ==
  /\ \A p \in Nodes(h, t) :
       /\ \A q \in Subtree(h, h.left[p]) : h.value[q] < h.value[p]
       /\ \A q \in Subtree(h, h.right[p]) : h.value[q] > h.value[p]
  /\ \A p \in Nodes(h, t), q \in Nodes(h, t) :
       p # q => h.value[p] # h.value[q]

\* C3: no call is undefined, and in every state both trees of every store are
\* strictly ordered search trees without equal keys.
C3_OrderInvariant ==
  /\ ~ub
  /\ \A s \in constructed :
       Ordered(Mem, LeftSentinel(s)) /\ Ordered(Mem, RightSentinel(s))

\* An erase has just taken a pair from a store of MaxKey + 1 pairs, and it
\* left a node with two children in the left tree and a node below the root
\* with a child in the right tree.
C3_Witness ==
  /\ call.op = "erase_left"
  /\ size(Mem, 1) = MaxKey
  /\ \E p \in Nodes(Mem, LeftSentinel(1)) : left[p] # NULL /\ right[p] # NULL
  /\ \E p \in Nodes(Mem, RightSentinel(1)) :
       left[p] # NULL /\ parent[p] # RightSentinel(1)

(***************************************************************************)
(* C4.  Duplicate rejection is atomic: insert(L, R) called when L is       *)
(* present on the left or R is present on the right returns end_left()     *)
(* and leaves the store exactly as before; in particular after             *)
(* insert(L, R) and insert(L, R2) with R2 # R, at_left(L) is still R and   *)
(* R2 is absent from the right side.                                       *)
(***************************************************************************)
Duplicate(h, s, l, r) ==
  find_left(h, s, l) # end_left(s) \/ find_right(h, s, r) # end_right(s)

\* The pair (l, r) is live and r2 is on no pair: insert(l, r2) is rejected
\* and changes neither what l maps to nor whether r2 is found.
SecondInsertRejected(h, s, l, r, r2) ==
  /\ insert(h, s, l, r2).ret = end_left(s)
  /\ at_left(insert(h, s, l, r2).h, s, l).val = r
  /\ ~at_left(insert(h, s, l, r2).h, s, l).threw
  /\ find_right(insert(h, s, l, r2).h, s, r2) = end_right(s)
  /\ size(insert(h, s, l, r2).h, s) = size(h, s)

\* C4: in every state, insert of a pair with a present left or right key
\* returns end_left() and leaves memory as it was; a second insert under a
\* live left key changes neither at_left of it nor the right side.
C4_DuplicateRejected ==
  \A s \in constructed, l \in Keys, r \in Keys :
    /\ Duplicate(Mem, s, l, r) =>
         insert(Mem, s, l, r) = [h |-> Mem, ret |-> end_left(s)]
    /\ \A r2 \in Keys :
         (<<l, r>> \in Pairs(Mem, s) /\ find_right(Mem, s, r2) = end_right(s))
           => SecondInsertRejected(Mem, s, l, r, r2)

\* insert has just returned end_left() on a store that holds pairs and lacks
\* a right value.
C4_Witness ==
  /\ call.op = "insert"
  /\ call.ret = end_left(1)
  /\ size(Mem, 1) = 2
  /\ \E r2 \in Keys : find_right(Mem, 1, r2) = end_right(1)

(***************************************************************************)
(* C5.  at_left_or_default(key): if key is present on the left it returns  *)
(* the right value paired with key and changes nothing; if key is absent   *)
(* it removes the pair (if any) whose right value is the default right     *)
(* value, inserts (key, default) and returns default, so that afterwards   *)
(* at_left(key) = default, the evicted pair's left key is not found, every *)
(* other pair is retained, and size() is unchanged after an eviction and   *)
(* one larger otherwise.  at_right_or_default is the mirror.               *)
(***************************************************************************)
\* The pairs of h whose right (left) value is the default.
DefaultRightPairs(h, s) == {p \in Pairs(h, s) : p[2] = DefaultRight}
DefaultLeftPairs(h, s) == {p \in Pairs(h, s) : p[1] = DefaultLeft}

\* a is the result of at_left_or_default(key) in memory h.
AtLeftOrDefaultPresent(h, s, key, a) ==
  /\ <<key, a.val>> \in Pairs(h, s)
  /\ a.h = h

AtLeftOrDefaultAbsent(h, s, key, a) ==
  /\ ~a.h.fault /\ ~a.h.bad_alloc
  /\ a.val = DefaultRight
  /\ at_left(a.h, s, key).val = DefaultRight
  /\ \A p \in DefaultRightPairs(h, s) : find_left(a.h, s, p[1]) = end_left(s)
  /\ Pairs(a.h, s) = (Pairs(h, s) \ DefaultRightPairs(h, s)) \cup {<<key, DefaultRight>>}
  /\ size(a.h, s) = IF DefaultRightPairs(h, s) # {} THEN size(h, s) ELSE size(h, s) + 1
  /\ Paired(a.h, s) /\ Counted(a.h, s)

AtRightOrDefaultPresent(h, s, key, a) ==
  /\ <<a.val, key>> \in Pairs(h, s)
  /\ a.h = h

AtRightOrDefaultAbsent(h, s, key, a) ==
  /\ ~a.h.fault /\ ~a.h.bad_alloc
  /\ a.val = DefaultLeft
  /\ at_right(a.h, s, key).val = DefaultLeft
  /\ \A p \in DefaultLeftPairs(h, s) : find_right(a.h, s, p[2]) = end_right(s)
  /\ Pairs(a.h, s) = (Pairs(h, s) \ DefaultLeftPairs(h, s)) \cup {<<DefaultLeft, key>>}
  /\ size(a.h, s) = IF DefaultLeftPairs(h, s) # {} THEN size(h, s) ELSE size(h, s) + 1
  /\ Paired(a.h, s) /\ Counted(a.h, s)

\* C5: in every state and for every key, at_left_or_default and
\* at_right_or_default return and leave what the claim says, in the present
\* and in the absent case.
C5_AtOrDefault ==
  \A s \in constructed, key \in Keys :
    /\ IF find_left(Mem, s, key) # end_left(s)
       THEN AtLeftOrDefaultPresent(Mem, s, key, at_left_or_default(Mem, s, key))
       ELSE AtLeftOrDefaultAbsent(Mem, s, key, at_left_or_default(Mem, s, key))
    /\ IF find_right(Mem, s, key) # end_right(s)
       THEN AtRightOrDefaultPresent(Mem, s, key, at_right_or_default(Mem, s, key))
       ELSE AtRightOrDefaultAbsent(Mem, s, key, at_right_or_default(Mem, s, key))

\* at_left_or_default has just returned the default, and in the state it
\* left a further key is absent while the default right value is paired: the
\* next call evicts.
C5_Witness ==
  /\ call.op = "at_left_or_default"
  /\ call.val = DefaultRight
  /\ size(Mem, 1) = 2
  /\ DefaultRightPairs(Mem, 1) # {}
  /\ DefaultLeftPairs(Mem, 1) # {}
  /\ \E key \in Keys : find_left(Mem, 1, key) = end_left(1)
  /\ \E key \in Keys : find_right(Mem, 1, key) = end_right(1)

(***************************************************************************)
(* C6.  erase_left(position) on a valid non-end left position removes      *)
(* exactly that pair from both trees, disposes its record once, decrements *)
(* size() by one, leaves every other pair present and paired as before,    *)
(* and returns the left position that was the in-order successor of the    *)
(* erased element before the erase (end_left() if it was the maximum).     *)
(* erase_right(position) is the mirror.                                    *)
(***************************************************************************)
\* The node of tree t with the least value above that of node it, or end.
Successor(h, t, it) ==
  IF \A q \in Nodes(h, t) : h.value[q] <= h.value[it] THEN end(t)
  ELSE CHOOSE q \in Nodes(h, t) :
         /\ h.value[q] > h.value[it]
         /\ \A q2 \in Nodes(h, t) : h.value[q2] > h.value[it] => h.value[q] <= h.value[q2]

\* e is the result of erasing record rec from store s in memory h.
ErasedRecord(h, s, rec, e) ==
  /\ ~e.h.fault
  /\ e.h.allocated = h.allocated \ {rec}
  /\ Nodes(e.h, LeftSentinel(s)) = Nodes(h, LeftSentinel(s)) \ {LeftNode(rec)}
  /\ Nodes(e.h, RightSentinel(s)) = Nodes(h, RightSentinel(s)) \ {RightNode(rec)}
  /\ Pairs(e.h, s) = Pairs(h, s) \ {PairOf(h, rec)}
  /\ \A q \in LeftRecords(h, s) \ {rec} : PairOf(e.h, q) = PairOf(h, q)
  /\ size(e.h, s) = size(h, s) - 1
  /\ Paired(e.h, s)

\* C6: in every state and for every non-end position, erase_left and
\* erase_right remove exactly that record and return its successor.
C6_ErasePosition ==
  \A s \in constructed :
    /\ \A it \in LeftPositions(Mem, s) :
         /\ ErasedRecord(Mem, s, it[2], erase_left(Mem, s, it))
         /\ erase_left(Mem, s, it).ret = Successor(Mem, LeftSentinel(s), it)
    /\ \A it \in RightPositions(Mem, s) :
         /\ ErasedRecord(Mem, s, it[2], erase_right(Mem, s, it))
         /\ erase_right(Mem, s, it).ret = Successor(Mem, RightSentinel(s), it)

\* erase_left has just returned the position of a successor, in a store
\* that still holds MaxKey pairs, one of them at a node with two children.
C6_Witness ==
  /\ call.op = "erase_left"
  /\ call.ret \in Nodes(Mem, LeftSentinel(1))
  /\ size(Mem, 1) = MaxKey
  /\ \E it \in LeftPositions(Mem, 1) : left[it] # NULL /\ right[it] # NULL

(***************************************************************************)
(* C7.  Position stability: erasing one pair, or inserting a pair, never   *)
(* changes which record any other position refers to: for every pair       *)
(* (L', R') other than the erased one, find_left(L') and find_right(R')    *)
(* return the same record after the operation as before it, and            *)
(* end_left()/end_right() are unchanged; in particular when the erased     *)
(* node has two children in either tree.                                   *)
(***************************************************************************)
\* The end position of tree t is still what follows the greatest node.
EndKept(h, t) ==
  /\ Valid(h, end(t))
  /\ ~empty(h, t) => next(h, Rightmost(h, h.left[t])) = end(t)
  /\ ~empty(h, t) => prev(h, end(t)) \in Nodes(h, t)

\* Memory g finds every key other than l on the left and other than r on
\* the right of store s where memory h finds it.
PositionsKept(h, g, s, l, r) ==
  /\ \A k \in Keys \ {l} : find_left(g, s, k) = find_left(h, s, k)
  /\ \A k \in Keys \ {r} : find_right(g, s, k) = find_right(h, s, k)
  /\ EndKept(g, LeftSentinel(s)) /\ EndKept(g, RightSentinel(s))

TwoChildren(h, p) == h.left[p] # NULL /\ h.right[p] # NULL

\* C7: in every state, an erase of any record and an insert of any pair leave
\* find_left and find_right of every other key at the same node, and the end
\* positions in place.
C7_PositionStability ==
  \A s \in constructed :
    /\ \A rec \in LeftRecords(Mem, s) :
         /\ PositionsKept(Mem, erase_left(Mem, s, LeftNode(rec)).h, s,
                          value[LeftNode(rec)], value[RightNode(rec)])
         /\ PositionsKept(Mem, erase_right(Mem, s, RightNode(rec)).h, s,
                          value[LeftNode(rec)], value[RightNode(rec)])
    /\ \A l \in Keys, r \in Keys :
         PositionsKept(Mem, insert(Mem, s, l, r).h, s, l, r)

\* insert has just returned a new position, and the store has a record
\* whose left node has two children and a predecessor that is not its left
\* child, and a record whose right node has two children; their erase is
\* examined.
C7_Witness ==
  /\ call.op = "insert"
  /\ call.ret \in NodeAddr
  /\ \E rec \in LeftRecords(Mem, 1) :
       /\ TwoChildren(Mem, LeftNode(rec))
       /\ prev(Mem, LeftNode(rec)) # left[LeftNode(rec)]
  /\ \E rec \in LeftRecords(Mem, 1) : TwoChildren(Mem, RightNode(rec))

(***************************************************************************)
(* C8.  Move construction keeps the count invariant: after store B is      *)
(* move-constructed from store A holding n pairs, B holds exactly A's      *)
(* former pairs with B.size() = n, and for each of A and B size() equals   *)
(* the number of nodes reachable from its own left sentinel and from its   *)
(* own right sentinel.                                                     *)
(***************************************************************************)
\* C8: after a move construction no call is undefined and size() of every
\* store is the node count of each of its trees.
C8_MoveKeepsCount ==
  call.op = "move" => ~ub /\ \A s \in constructed : Counted(Mem, s)

(***************************************************************************)
(* C9.  swap: for any two stores a and b, including when either or both    *)
(* are empty, a.swap(b) completes and leaves a holding exactly b's former  *)
(* pairs and size and b holding a's, with the root of each exchanged tree  *)
(* having the sentinel of its new owner as parent and with the BST,        *)
(* pairing and count invariants holding for both stores.                   *)
(***************************************************************************)
\* The invariants of one store.
WellFormed(h, s) ==
  /\ Paired(h, s)
  /\ Counted(h, s)
  /\ Ordered(h, LeftSentinel(s)) /\ Ordered(h, RightSentinel(s))

\* No record is linked into both stores.
Disjoint(h, s, o) ==
  /\ Nodes(h, LeftSentinel(s)) \cap Nodes(h, LeftSentinel(o)) = {}
  /\ Nodes(h, RightSentinel(s)) \cap Nodes(h, RightSentinel(o)) = {}

RootAdopted(h, t) == h.left[t] # NULL => Parent(h, h.left[t]) = t

\* g is the memory s.swap(o) leaves from memory h.
Swapped(h, g, s, o) ==
  /\ ~g.fault
  /\ Pairs(g, s) = Pairs(h, o) /\ Pairs(g, o) = Pairs(h, s)
  /\ size(g, s) = size(h, o) /\ size(g, o) = size(h, s)
  /\ RootAdopted(g, LeftSentinel(s)) /\ RootAdopted(g, RightSentinel(s))
  /\ RootAdopted(g, LeftSentinel(o)) /\ RootAdopted(g, RightSentinel(o))
  /\ WellFormed(g, s) /\ WellFormed(g, o)

\* C9: swap is never undefined, and swap of any two well-formed stores,
\* empty or not, exchanges their pairs and sizes and keeps both well-formed.
C9_SwapExchanges ==
  /\ call.op = "swap" => ~ub
  /\ \A s \in constructed, o \in constructed :
       (s # o /\ WellFormed(Mem, s) /\ WellFormed(Mem, o) /\ Disjoint(Mem, s, o))
         => Swapped(Mem, bimap_swap(Mem, s, o), s, o)

(***************************************************************************)
(* C10.  Exclusive ownership: in every state reached by insert, erase,     *)
(* copy construction, move construction, swap and destruction of stores,   *)
(* each record is reachable from the sentinels of at most one store, and   *)
(* no record is disposed more than once.                                   *)
(***************************************************************************)
\* C10: no destructor is undefined (no record is disposed twice), and no
\* record is linked under the sentinels of two stores.
C10_ExclusiveOwnership ==
  /\ call.op = "destroy" => ~ub
  /\ \A s \in constructed, o \in constructed : s # o => Disjoint(Mem, s, o)

(***************************************************************************)
(* C11.  Flip involution: in every reachable state of a store (also one    *)
(* made by copy construction, move construction or swap),                  *)
(* p.flip().flip() = p for every valid left or right position p,           *)
(* end_left().flip() = end_right() and end_right().flip() = end_left(),    *)
(* and for a non-end position p the position p.flip() belongs to the same  *)
(* record as p.                                                            *)
(***************************************************************************)
\* The valid positions of store s: its end positions and its live nodes.
Positions(h, s) ==
  {p \in Nodes(h, LeftSentinel(s)) \cup Nodes(h, RightSentinel(s)) : Valid(h, p)}
    \cup {end_left(s), end_right(s)}

FlipInvolution(h, s) ==
  /\ flip(h, end_left(s)) = end_right(s)
  /\ flip(h, end_right(s)) = end_left(s)
  /\ \A p \in Positions(h, s) : flip(h, flip(h, p)) = p
  /\ \A p \in Positions(h, s) :
       IsNode(p) => /\ IsNode(flip(h, p))
                    /\ flip(h, p)[2] = p[2]
                    /\ flip(h, p)[1] # p[1]

\* C11: in every state, flip is an involution on the positions of every
\* store, exchanges its two end positions and stays within a record.
C11_FlipInvolution == \A s \in constructed : FlipInvolution(Mem, s)

\* swap has just exchanged two stores of two pairs: store 1 now holds the
\* records store 2 allocated.
C11_Witness ==
  /\ call.op = "swap"
  /\ ~ub
  /\ size(Mem, 1) = 2
  /\ left[LeftSentinel(1)] # NULL
  /\ left[LeftSentinel(1)][2] \in Home(2)
  /\ Cardinality(Positions(Mem, 1)) = 6

(***************************************************************************)
(* C12.  Copy equality and independence: copy-constructing a store from    *)
(* any source (whatever insertion order and tree shape it has) yields a    *)
(* store that compares == to the source, with the same size and the same   *)
(* set of pairs; the source is unchanged by the copy, and erasing from or  *)
(* inserting into the copy afterwards changes neither the size nor the     *)
(* pairs of the source.                                                    *)
(***************************************************************************)
\* Store o is in memory g what it is in memory h: same size, same
\* positions, same links and values at each of them, same pairs.
SameStore(h, g, o) ==
  /\ ~g.fault /\ ~g.bad_alloc
  /\ size(g, o) = size(h, o)
  /\ Positions(g, o) = Positions(h, o)
  /\ \A p \in Positions(h, o) :
       /\ g.parent[p] = h.parent[p]
       /\ g.left[p] = h.left[p]
       /\ g.right[p] = h.right[p]
       /\ IsNode(p) => g.value[p] = h.value[p]
  /\ Pairs(g, o) = Pairs(h, o)

IsEqual(e) == e.ret /\ ~e.fault

\* g is the memory the copy construction of s from o leaves from memory h.
CopiedEqual(h, g, s, o) ==
  /\ SameStore(h, g, o)
  /\ IsEqual(bimap_equal(g, s, o)) /\ IsEqual(bimap_equal(g, o, s))
  /\ size(g, s) = size(h, o)
  /\ Pairs(g, s) = Pairs(h, o)
  /\ Disjoint(g, s, o)
  /\ WellFormed(g, s)

\* Erasing from and inserting into s in memory g leaves o as it is.
Independent(g, s, o) ==
  /\ \A it \in LeftPositions(g, s) : SameStore(g, erase_left(g, s, it).h, o)
  /\ \A it \in RightPositions(g, s) : SameStore(g, erase_right(g, s, it).h, o)
  /\ \A l \in Keys, r \in Keys : SameStore(g, insert(g, s, l, r).h, o)

\* C12: in every state, a copy made of any constructed store is == to it,
\* leaves it unchanged, and can be erased from and inserted into without
\* changing it.
C12_CopyEqualIndependent ==
  /\ ~ub
  /\ \A o \in constructed, s \in Stores \ constructed :
       /\ CopiedEqual(Mem, bimap_copy(Mem, s, o), s, o)
       /\ Independent(bimap_copy(Mem, s, o), s, o)

\* A copy has just been made of a store of three pairs whose left tree has
\* a root with two children and whose right tree has not; the stores are ==.
C12_Witness ==
  /\ call.op = "copy"
  /\ constructed = Stores
  /\ size(Mem, call.s) = MaxFewKey + 1
  /\ IsEqual(bimap_equal(Mem, 1, 2))
  /\ \E o \in Stores \ {call.s} :
       /\ TwoChildren(Mem, left[LeftSentinel(o)])
       /\ ~TwoChildren(Mem, left[RightSentinel(o)])
  /\ ~TwoChildren(Mem, left[LeftSentinel(call.s)])

(***************************************************************************)
(* C13.  Successful insert: insert(L, R) with L absent from the left side  *)
(* and R absent from the right side returns a left position other than     *)
(* end_left() whose dereference is L and whose flip() dereferences to R,   *)
(* increases size() by exactly one, and leaves every pair that was present *)
(* present with its association unchanged.                                 *)
(***************************************************************************)
\* Every pair of memory h is found from either side in memory g.
AssociationsKept(h, g, s) ==
  \A pr \in Pairs(h, s) :
    /\ at_left(g, s, pr[1]) = [h |-> g, val |-> pr[2], threw |-> FALSE]
    /\ at_right(g, s, pr[2]) = [h |-> g, val |-> pr[1], threw |-> FALSE]

\* i is what insert(l, r) on store s returned from memory h.
Inserted(h, i, s, l, r) ==
  /\ ~i.h.fault /\ ~i.h.bad_alloc
  /\ i.ret # end_left(s) /\ i.ret \in Nodes(i.h, LeftSentinel(s))
  /\ deref_inserted(i).val = l
  /\ deref_flipped(i).val = r
  /\ find_left(i.h, s, l) = i.ret
  /\ find_right(i.h, s, r) = flip(i.h, i.ret)
  /\ size(i.h, s) = size(h, s) + 1
  /\ Pairs(i.h, s) = Pairs(h, s) \cup {<<l, r>>}
  /\ AssociationsKept(h, i.h, s)

\* C13: in every state, for every store and every L and R that are both
\* absent, insert(L, R) returns the position of the new pair (L, R), adds
\* one to size() and keeps every other pair.
C13_SuccessfulInsert ==
  /\ ~ub
  /\ \A s \in constructed, l \in Keys, r \in Keys :
       ~Duplicate(Mem, s, l, r) => Inserted(Mem, insert(Mem, s, l, r), s, l, r)

\* A third pair has just been inserted below a node that is not the root,
\* in the left tree and in the right tree.
C13_Witness ==
  /\ call.op = "insert" /\ IsNode(call.ret)
  /\ size(Mem, call.s) = MaxFewKey + 1
  /\ parent[call.ret] # LeftSentinel(call.s)
  /\ parent[parent[call.ret]] # LeftSentinel(call.s)
  /\ parent[flip(Mem, call.ret)] # RightSentinel(call.s)
  /\ deref(Mem, "right", flip(Mem, call.ret)) # deref(Mem, "left", call.ret)

(***************************************************************************)
(* C14.  at_left(key) returns the right value of the pair whose left value *)
(* equals key when there is such a pair, and fails with std::out_of_range  *)
(* when key is absent; in both cases the store is unchanged.  at_right is  *)
(* the mirror.                                                             *)
(***************************************************************************)
AtLeftFound(h, s, key) ==
  IF \E pr \in Pairs(h, s) : pr[1] = key
    THEN /\ ~at_left(h, s, key).threw
         /\ <<key, at_left(h, s, key).val>> \in Pairs(h, s)
    ELSE at_left(h, s, key).threw

AtRightFound(h, s, key) ==
  IF \E pr \in Pairs(h, s) : pr[2] = key
    THEN /\ ~at_right(h, s, key).threw
         /\ <<at_right(h, s, key).val, key>> \in Pairs(h, s)
    ELSE at_right(h, s, key).threw

\* C14: in every state, for every store and key, at_left and at_right return
\* the partner of the key if it is on a pair and throw if it is not, and
\* the memory they leave is the memory they were called in.
C14_AtFoundOrThrows ==
  /\ ~ub
  /\ \A s \in constructed, key \in Keys :
       /\ AtLeftFound(Mem, s, key) /\ at_left(Mem, s, key).h = Mem
       /\ AtRightFound(Mem, s, key) /\ at_right(Mem, s, key).h = Mem

\* A store of three pairs, none of a value with itself, with a left value
\* and a right value that are on no pair: both outcomes of both calls occur.
C14_Witness ==
  /\ 1 \in constructed /\ Cardinality(Pairs(Mem, 1)) = MaxFewKey + 1
  /\ \A pr \in Pairs(Mem, 1) : pr[1] # pr[2]
  /\ at_left(Mem, 1, MaxKey).threw /\ at_right(Mem, 1, MaxKey).threw
  /\ ~at_left(Mem, 1, 0).threw /\ ~at_right(Mem, 1, 0).threw
  /\ at_left(Mem, 1, 0).val # at_right(Mem, 1, 0).val

(***************************************************************************)
(* C15.  Range erase: erase_left(first, last) with first reachable to last *)
(* by increments removes exactly the pairs whose left positions lie in     *)
(* [first, last), in both trees, keeps all others, and returns last, which *)
(* still refers to the same element (or end);                              *)
(* erase_left(begin_left(), end_left()) on a non-empty store yields        *)
(* size() = 0, begin_left() = end_left() and begin_right() = end_right().  *)
(* erase_right(first, last) is the mirror.                                 *)
(***************************************************************************)
\* The positions from p to the end position e of its tree, by ++.
RECURSIVE Following(_, _, _)
Following(h, e, p) ==
  IF p = e \/ ~Valid(h, p) THEN {p} ELSE {p} \cup Following(h, e, next(h, p))

\* The positions of [first, last).
Range(h, e, first, last) == Following(h, e, first) \ Following(h, e, last)

RecordsOf(ps) == {p[2] : p \in ps}

\* x is what a range erase of the records recs of store s returned from
\* memory h, and lst the end of the range.
RangeErased(h, x, s, recs, lst) ==
  /\ ~x.h.fault
  /\ x.ret = lst
  /\ x.h.allocated = h.allocated \ recs
  /\ LeftRecords(x.h, s) = LeftRecords(h, s) \ recs
  /\ RightRecords(x.h, s) = RightRecords(h, s) \ recs
  /\ \A q \in LeftRecords(x.h, s) : PairOf(x.h, q) = PairOf(h, q)
  /\ Pairs(x.h, s) = {PairOf(h, q) : q \in LeftRecords(h, s) \ recs}
  /\ size(x.h, s) = size(h, s) - Cardinality(recs)
  /\ WellFormed(x.h, s)
  /\ Valid(x.h, lst)
  /\ IsNode(lst) => /\ lst[2] \in LeftRecords(x.h, s)
                    /\ x.h.value[lst] = h.value[lst]

Emptied(h, s) ==
  /\ size(h, s) = 0
  /\ begin_left(h, s) = end_left(s)
  /\ begin_right(h, s) = end_right(s)

\* C15: in every state and for every range of either side of every store,
\* the range erase removes the records of the range and no other, returns
\* its second argument, which stays where it was, and the full range
\* empties the store.
C15_RangeErase ==
  /\ ~ub
  /\ \A s \in constructed :
       /\ \A first \in LeftPositions(Mem, s) \cup {end_left(s)} :
            \A lst \in Following(Mem, end_left(s), first) :
              RangeErased(Mem, erase_left_range(Mem, s, first, lst), s,
                          RecordsOf(Range(Mem, end_left(s), first, lst)), lst)
       /\ \A first \in RightPositions(Mem, s) \cup {end_right(s)} :
            \A lst \in Following(Mem, end_right(s), first) :
              RangeErased(Mem, erase_right_range(Mem, s, first, lst), s,
                          RecordsOf(Range(Mem, end_right(s), first, lst)), lst)
       /\ Emptied(erase_left_range(Mem, s, begin_left(Mem, s), end_left(s)).h, s)
       /\ Emptied(erase_right_range(Mem, s, begin_right(Mem, s), end_right(s)).h, s)

\* A range erase has just removed two pairs from the middle of a store of
\* four and returned the position of the largest, which is still there.
C15_Witness ==
  /\ call.op = "erase_left_range"
  /\ IsNode(call.ret)
  /\ size(Mem, call.s) = 2
  /\ find_left(Mem, call.s, 0) # end_left(call.s)
  /\ find_left(Mem, call.s, MaxKey) = call.ret

(***************************************************************************)
(* C16.  Erase by key: erase_left(key) returns true exactly when a pair    *)
(* with left value key was present before the call, and then that pair and *)
(* only that pair is removed from both sides; when key is absent it        *)
(* returns false and leaves the store unchanged.  erase_right(key) is the  *)
(* mirror.                                                                 *)
(***************************************************************************)
\* e is what an erase by key returned from memory h, and recs the records
\* of store s that hold the key (one or none).
ErasedByKey(h, e, s, recs) ==
  /\ e.ret = (recs # {})
  /\ recs = {} => e.h = h
  /\ \A rec \in recs :
       /\ ErasedRecord(h, s, rec, e)
       /\ WellFormed(e.h, s)
       /\ PositionsKept(h, e.h, s, h.value[LeftNode(rec)], h.value[RightNode(rec)])

\* C16: in every state, for every store and key, erase_left(key) and
\* erase_right(key) answer whether the key was on a pair, remove that pair
\* alone if it was, and change nothing if it was not.
C16_EraseByKey ==
  /\ ~ub
  /\ \A s \in constructed, key \in Keys :
       /\ ErasedByKey(Mem, erase_left_key(Mem, s, key), s,
                      {rec \in LeftRecords(Mem, s) : PairOf(Mem, rec)[1] = key})
       /\ ErasedByKey(Mem, erase_right_key(Mem, s, key), s,
                      {rec \in RightRecords(Mem, s) : PairOf(Mem, rec)[2] = key})

\* erase_left(key) has just returned true for the largest left key of a
\* store of four pairs, so that the position after the erased one was end.
C16_Witness ==
  /\ call.op = "erase_left_key" /\ call.flag
  /\ size(Mem, call.s) = MaxKey
  /\ find_left(Mem, call.s, MaxKey) = end_left(call.s)
  /\ \A k \in Keys \ {MaxKey} : find_left(Mem, call.s, k) # end_left(call.s)

(***************************************************************************)
(* C17.  Destruction terminates and frees everything once: for a store     *)
(* built by any sequence of insert and erase operations and holding n      *)
(* pairs, the destructor's loop (erase the front left element until        *)
(* begin_left() = end_left()) terminates after exactly n erasures, leaving *)
(* both trees empty, and disposes each of the n records exactly once.      *)
(***************************************************************************)
\* g is the memory the destructor's loop leaves from memory h: no delete
\* of a record that is not allocated (a fault), and the records of s, no
\* more and no fewer, are no longer allocated.
LoopFreedAll(h, g, s) ==
  /\ ~g.fault
  /\ empty(g, LeftSentinel(s)) /\ empty(g, RightSentinel(s))
  /\ begin_left(g, s) = end_left(s)
  /\ size(g, s) = 0
  /\ g.allocated = h.allocated \ LeftRecords(h, s)
  /\ LeftRecords(h, s) \subseteq h.allocated

Destroyed(h, g, s) ==
  /\ ~g.fault
  /\ s \notin g.constructed
  /\ g.allocated = h.allocated \ LeftRecords(h, s)

\* C17: in every state and for every store, the destructor's loop runs
\* size() times, empties both trees and frees the store's records, each
\* once.
C17_DestructionFreesAll ==
  /\ ~ub
  /\ \A s \in constructed :
       /\ destroy_steps(Mem, s, begin_left(Mem, s)) = size(Mem, s)
       /\ size(Mem, s) = Cardinality(LeftRecords(Mem, s))
       /\ LoopFreedAll(Mem, erase_left_loop(Mem, s, begin_left(Mem, s), end_left(s)), s)
       /\ Destroyed(Mem, bimap_destroy(Mem, s), s)

\* A store of four pairs whose left root has two children and whose right
\* root has not: the destructor's loop runs four times on it.
C17_Witness ==
  /\ call.op = "insert" /\ IsNode(call.ret)
  /\ size(Mem, call.s) = MaxKey + 1
  /\ TwoChildren(Mem, left[LeftSentinel(call.s)])
  /\ ~TwoChildren(Mem, left[RightSentinel(call.s)])
  /\ destroy_steps(Mem, call.s, begin_left(Mem, call.s)) = MaxKey + 1
  /\ bimap_destroy(Mem, call.s).allocated = {}

(***************************************************************************)
(* C18.  Bound queries follow the conventional semantics for every tree    *)
(* shape and every key: lower_bound_left(k) returns the position of the    *)
(* smallest left key that is not less than k, upper_bound_left(k) the      *)
(* position of the smallest left key greater than k, and each returns      *)
(* end_left() when there is no such key (also on an empty store);          *)
(* lower_bound_right and upper_bound_right are the mirrors.                *)
(***************************************************************************)
\* The keys a bound is asked for: every key, one below and one above.
BoundKeys == (0 - 1) .. (MaxKey + 1)

\* The node of the smallest value among the nodes ps, or e if ps is empty.
Smallest(h, ps, e) ==
  IF ps = {} THEN e
  ELSE CHOOSE p \in ps : \A q \in ps : h.value[p] <= h.value[q]

NotLess(h, t, k) == {p \in Nodes(h, t) : h.value[p] >= k}
Greater(h, t, k) == {p \in Nodes(h, t) : h.value[p] > k}

\* C18: in every state, for every store and key, the four bound queries
\* return the node of the smallest key not less than (greater than) the
\* key, or the end position if there is none.
C18_BoundQueries ==
  /\ ~ub
  /\ \A s \in constructed, k \in BoundKeys :
       /\ lower_bound_left(Mem, s, k)
            = Smallest(Mem, NotLess(Mem, LeftSentinel(s), k), end_left(s))
       /\ upper_bound_left(Mem, s, k)
            = Smallest(Mem, Greater(Mem, LeftSentinel(s), k), end_left(s))
       /\ lower_bound_right(Mem, s, k)
            = Smallest(Mem, NotLess(Mem, RightSentinel(s), k), end_right(s))
       /\ upper_bound_right(Mem, s, k)
            = Smallest(Mem, Greater(Mem, RightSentinel(s), k), end_right(s))

\* A left tree of three keys in which the descent for an absent key k ends
\* at a smaller key two levels below the node of the next greater key, so
\* that the bound is reached by climbing; the bounds of a present key differ.
C18_Witness ==
  /\ 1 \in constructed /\ size(Mem, 1) = MaxKey
  /\ \E k \in Keys :
       /\ find_left(Mem, 1, k) = end_left(1)
       /\ IsNode(find_nearest(Mem, LeftSentinel(1), k))
       /\ value[find_nearest(Mem, LeftSentinel(1), k)] < k
       /\ IsNode(lower_bound_left(Mem, 1, k))
       /\ lower_bound_left(Mem, 1, k) = upper_bound_left(Mem, 1, k)
       /\ lower_bound_left(Mem, 1, k)
            = parent[parent[find_nearest(Mem, LeftSentinel(1), k)]]
  /\ \E k \in Keys :
       /\ IsNode(lower_bound_left(Mem, 1, k))
       /\ upper_bound_left(Mem, 1, k) # lower_bound_left(Mem, 1, k)

(***************************************************************************)
(* C19.  Copy assignment: for any two distinct stores a and b, including   *)
(* when a or b is empty, a = b completes and leaves a == b with a holding  *)
(* its own copies of b's pairs, leaves b unchanged, and disposes each      *)
(* record a held before exactly once; a = a leaves a unchanged.            *)
(***************************************************************************)
\* g is the memory s = o leaves from memory h, for distinct s and o.
Assigned(h, g, s, o) ==
  /\ ~g.fault /\ ~g.bad_alloc
  /\ Tmp \notin g.constructed
  /\ SameStore(h, g, o)
  /\ IsEqual(bimap_equal(g, s, o))
  /\ size(g, s) = size(h, o)
  /\ Pairs(g, s) = Pairs(h, o)
  /\ WellFormed(g, s)
  /\ Disjoint(g, s, o)
  /\ g.allocated \cap LeftRecords(h, s) = {}
  /\ g.allocated = (h.allocated \ LeftRecords(h, s)) \cup LeftRecords(g, s)

\* C19: no copy assignment is undefined, and in every state and for every
\* two stores, a = b leaves a equal to b on records of its own, b as it was
\* and the old records of a freed; a = a changes nothing.
C19_CopyAssignment ==
  /\ call.op = "assign" => ~ub
  /\ \A s \in constructed, o \in constructed :
       IF s = o THEN bimap_assign(Mem, s, o) = Mem
       ELSE Assigned(Mem, bimap_assign(Mem, s, o), s, o)

\* The same for two stores that both hold a pair.
C19_AssignNonEmpty ==
  \A s \in constructed, o \in constructed :
    (s # o /\ ~bimap_empty(Mem, s) /\ ~bimap_empty(Mem, o))
      => Assigned(Mem, bimap_assign(Mem, s, o), s, o)

\* A copy assignment between two stores of two and three pairs has just
\* completed.
C19_AssignedSome ==
  /\ call.op = "assign" /\ ~ub
  /\ constructed = Stores
  /\ size(Mem, 1) = MaxFewKey + 1 /\ size(Mem, 2) = MaxFewKey + 1
  /\ IsEqual(bimap_equal(Mem, 1, 2))
  /\ Cardinality(allocated) = 2 * (MaxFewKey + 1)

(***************************************************************************)
(* C20.  Link consistency: after every engine operation returns (insert,   *)
(* erase of a leaf, of a one-child node and of a two-child node), the      *)
(* links reachable from each sentinel form a tree without cycles in which  *)
(* the root's parent is the sentinel and, for every reachable node n, a    *)
(* non-null n.left has parent n and a non-null n.right has parent n; the   *)
(* set of reachable nodes is exactly the set of live records, so no erased *)
(* node is still referenced by any reachable node.                         *)
(***************************************************************************)
\* The links below the sentinel t form a tree of live nodes of t's tag.
LinkedTree(h, t) ==
  /\ h.left[t] # NULL => h.parent[h.left[t]] = t
  /\ \A n \in Nodes(h, t) :
       /\ IsTreeNode(h, t, n)
       /\ h.left[n] # NULL => h.parent[h.left[n]] = n
       /\ h.right[n] # NULL => h.parent[h.right[n]] = n
       /\ n \notin Subtree(h, h.left[n]) \cup Subtree(h, h.right[n])
       /\ Subtree(h, h.left[n]) \cap Subtree(h, h.right[n]) = {}

\* Every allocated record is linked into both trees of one constructed
\* store, and nothing else is.
LiveLinked(h) ==
  /\ UNION {LeftRecords(h, s) : s \in h.constructed} = h.allocated
  /\ UNION {RightRecords(h, s) : s \in h.constructed} = h.allocated

Linked(h) ==
  /\ ~h.fault
  /\ \A s \in h.constructed :
       LinkedTree(h, LeftSentinel(s)) /\ LinkedTree(h, RightSentinel(s))
  /\ LiveLinked(h)

\* The engine's erase of node n of the tree t alone: the nodes of t are
\* the former ones without n, linked as a tree, and none refers to n.
EngineErased(h, g, t, n) ==
  /\ ~g.fault
  /\ LinkedTree(g, t)
  /\ Nodes(g, t) = Nodes(h, t) \ {n}
  /\ \A q \in Nodes(g, t) : g.left[q] # n /\ g.right[q] # n /\ g.parent[q] # n
  /\ g.left[t] # n

\* C20: every state is linked consistently, and so is the memory that the
\* erase of any node from its tree, the erase of any record and the insert
\* of any pair leave.
C20_LinkConsistency ==
  /\ ~ub
  /\ Linked(Mem)
  /\ \A s \in constructed :
       /\ \A n \in Nodes(Mem, LeftSentinel(s)) :
            /\ EngineErased(Mem, tree_erase(Mem, n), LeftSentinel(s), n)
            /\ Linked(erase_left(Mem, s, n).h)
       /\ \A n \in Nodes(Mem, RightSentinel(s)) :
            /\ EngineErased(Mem, tree_erase(Mem, n), RightSentinel(s), n)
            /\ Linked(erase_right(Mem, s, n).h)
       /\ \A l \in Keys, r \in Keys : Linked(insert(Mem, s, l, r).h)

IsLeaf(h, n) == h.left[n] = NULL /\ h.right[n] = NULL
OneChild(h, n) == (h.left[n] = NULL) # (h.right[n] = NULL)

\* An insert has just returned and left a left tree of four nodes that has
\* a leaf, a node with one child and a node with two children whose
\* predecessor is not its left child: the erase of each of them is examined.
C20_Witness ==
  /\ call.op = "insert" /\ IsNode(call.ret)
  /\ IsLeaf(Mem, call.ret)
  /\ \E n \in Nodes(Mem, LeftSentinel(call.s)) : IsLeaf(Mem, n)
  /\ \E n \in Nodes(Mem, LeftSentinel(call.s)) : OneChild(Mem, n)
  /\ \E n \in Nodes(Mem, LeftSentinel(call.s)) :
       TwoChildren(Mem, n) /\ prev(Mem, n) # left[n]

(***************************************************************************)
(* C21.  Ordered traversal: on either side of a store holding n pairs in   *)
(* any tree shape, starting at begin and applying next repeatedly visits   *)
(* every live node exactly once in strictly increasing key order and       *)
(* reaches end after exactly n steps (next of the maximum element is the   *)
(* sentinel); prev(end) is the maximum element when the store is           *)
(* non-empty, and prev(next(p)) = p for every non-end position p.          *)
(***************************************************************************)
\* More steps than any traversal of live records can take.
Fuel == Cardinality(Records) + 1

\* The positions visited from p by at most fuel applications of next,
\* before the end position e.
RECURSIVE Traverse(_, _, _, _)
Traverse(h, e, p, fuel) ==
  IF p = e \/ fuel = 0 \/ ~Valid(h, p) \/ ~IsNode(p) THEN <<>>
  ELSE <<p>> \o Traverse(h, e, next(h, p), fuel - 1)

\* The position reached from p by n applications of next.
RECURSIVE Advance(_, _, _)
Advance(h, p, n) == IF n = 0 THEN p ELSE Advance(h, next(h, p), n - 1)

Increasing(h, w) ==
  \A i \in 1..Len(w), j \in 1..Len(w) : i < j => h.value[w[i]] < h.value[w[j]]

\* The node of the largest key of a non-empty set of nodes.
Largest(h, ps) == CHOOSE p \in ps : \A q \in ps : h.value[q] <= h.value[p]

\* The traversal w of the tree t of a store of n pairs: it has n positions,
\* the nodes of the tree, in increasing order; n steps from begin reach
\* end and no fewer do.
TraversedInOrder(h, t, w, n) ==
  /\ Len(w) = n
  /\ {w[i] : i \in 1..Len(w)} = Nodes(h, t)
  /\ Increasing(h, w)
  /\ Advance(h, begin(h, t), n) = end(t)
  /\ \A k \in 0..(n - 1) : Advance(h, begin(h, t), k) # end(t)
  /\ n > 0 => /\ next(h, w[n]) = end(t)
              /\ w[n] = Largest(h, Nodes(h, t))
              /\ prev(h, end(t)) = w[n]
  /\ \A p \in Nodes(h, t) : prev(h, next(h, p)) = p

\* C21: in every state, on both sides of every store, repeated next from
\* begin visits the nodes in strictly increasing order and reaches end
\* after size() steps, prev(end) is the largest, and prev undoes next.
C21_OrderedTraversal ==
  /\ ~ub
  /\ \A s \in constructed :
       /\ TraversedInOrder(Mem, LeftSentinel(s),
            Traverse(Mem, end_left(s), begin_left(Mem, s), Fuel), size(Mem, s))
       /\ TraversedInOrder(Mem, RightSentinel(s),
            Traverse(Mem, end_right(s), begin_right(Mem, s), Fuel), size(Mem, s))

\* A store of at least three pairs in whose left tree next climbs from a
\* right child past its parent to its grandparent, and in whose right tree
\* next descends into a right subtree whose smallest node is not its root.
C21_Witness ==
  /\ call.op \in {"insert", "erase_left", "erase_right"} /\ 1 \in constructed
  /\ size(Mem, 1) >= MaxKey
  /\ \E p \in Nodes(Mem, LeftSentinel(1)) :
       /\ right[p] = NULL /\ IsNode(next(Mem, p))
       /\ next(Mem, p) = parent[parent[p]]
  /\ \E p \in Nodes(Mem, RightSentinel(1)) :
       /\ right[p] # NULL /\ next(Mem, p) # right[p]

(***************************************************************************)
(* C22.  Two-children erase installs the predecessor by identity: when the *)
(* engine erases a node x that has both children, the node p that was x's  *)
(* in-order predecessor takes x's place - afterwards p's parent is x's     *)
(* former parent (in the same child slot, or the sentinel's root slot),    *)
(* p's right child is x's former right child, p's left child is x's former *)
(* left child (or p's own former left child when p was x's left child),    *)
(* p's former left subtree is attached where p used to hang, and no key is *)
(* copied between nodes.                                                   *)
(***************************************************************************)
\* The node of the tree t that comes before x in key order.
Predecessor(h, t, x) == Largest(h, {q \in Nodes(h, t) : h.value[q] < h.value[x]})

\* Node c, if there is one, hangs below node q in memory g.
ChildOf(g, c, q) == c # NULL => g.parent[c] = q

\* In memory g node p hangs where node x hangs in memory h.
InPlaceOf(h, g, x, p) ==
  /\ g.parent[p] = h.parent[x]
  /\ IF h.left[h.parent[x]] = x
       THEN /\ g.left[h.parent[x]] = p
            /\ IsNode(h.parent[x]) => g.right[h.parent[x]] = h.right[h.parent[x]]
       ELSE /\ g.right[h.parent[x]] = p
            /\ g.left[h.parent[x]] = h.left[h.parent[x]]

\* g is the memory the erase of x, a node of tree t with two children and
\* predecessor p, leaves from memory h.
PredecessorInstalled(h, g, t, x, p) ==
  /\ ~g.fault
  /\ p = Predecessor(h, t, x)
  /\ InPlaceOf(h, g, x, p)
  /\ g.right[p] = h.right[x] /\ ChildOf(g, h.right[x], p)
  /\ IF p = h.left[x]
       THEN g.left[p] = h.left[p] /\ ChildOf(g, h.left[p], p)
       ELSE /\ g.left[p] = h.left[x] /\ ChildOf(g, h.left[x], p)
            /\ g.right[h.parent[p]] = h.left[p]
            /\ ChildOf(g, h.left[p], h.parent[p])
            /\ g.left[h.parent[p]] = h.left[h.parent[p]]
  /\ g.value = h.value
  /\ Nodes(g, t) = Nodes(h, t) \ {x}
  /\ LinkedTree(g, t)
  /\ \A q \in Nodes(h, t) \ {x, p, h.parent[x], h.parent[p]} :
       g.left[q] = h.left[q] /\ g.right[q] = h.right[q]

\* C22: in every state, for every node with two children of either tree,
\* the engine's erase puts the node's predecessor, the node itself and not
\* its key, where the erased node was.
C22_PredecessorInstalled ==
  /\ ~ub
  /\ \A s \in constructed :
       \A t \in {LeftSentinel(s), RightSentinel(s)} :
         \A x \in Nodes(Mem, t) :
           TwoChildren(Mem, x)
             => PredecessorInstalled(Mem, tree_erase(Mem, x), t, x, prev(Mem, x))

\* An insert has just returned and left a store of five pairs in whose left
\* tree a node has two children and a predecessor that lies below its left
\* child and has a left child, and in whose right tree a node has two
\* children of which the left is its predecessor: their erase is examined.
C22_Witness ==
  /\ call.op = "insert" /\ IsNode(call.ret)
  /\ size(Mem, call.s) = MaxTallKey + 1
  /\ \E x \in Nodes(Mem, LeftSentinel(call.s)) :
       /\ TwoChildren(Mem, x)
       /\ prev(Mem, x) # left[x]
       /\ left[prev(Mem, x)] # NULL
  /\ \E x \in Nodes(Mem, RightSentinel(call.s)) :
       /\ TwoChildren(Mem, x)
       /\ prev(Mem, x) = left[x]

=============================================================================
